---- MODULE Spec2Model ----
(***************************************************************************)
(* generate_dataset.py: discovery of clean/noisy image pairs, shuffle,     *)
(* optional limit, partition into train/val/test, per-pair artifact        *)
(* writing and per-split manifest writing.                                 *)
(*                                                                         *)
(* Strings are sequences of tokens.  A token is one character ("a", "_",   *)
(* "/", ".", "\t", "\n") or one of the fixed words of the program          *)
(* ("png", "clean", "leftImg8bit", ...), none of which can be spelled with *)
(* the characters the inputs are drawn from.                               *)
(*                                                                         *)
(* Ratios are integers in units of 1/RatioDen with RatioDen a power of     *)
(* two: such values are exact as IEEE doubles, so 1.0 - val - test and     *)
(* N * ratio are computed by the program without rounding and the integer  *)
(* arithmetic below is the program's arithmetic.                           *)
(***************************************************************************)
EXTENDS Integers, Sequences, FiniteSets, TLC

VARIABLES
    pc,            \* control point of main / gen_dataset / gen_defects
    args,          \* the parsed command line
    tree,          \* input directories: directory path -> set of entry names
    rng,           \* state of the seeded random generator
    split_ratios,  \* main's split_ratios tuple
    img_triplets,  \* main's img_triplets list
    dataset,       \* split name -> list of triplets
    split_i,       \* index into SPLITS of the split gen_dataset is in
    pair_i,        \* number of pairs of that split gen_defects has completed
    path_pairs,    \* gen_defects' path_pairs list for the current split
    out,           \* output tree: relative path -> what was written there
    lst,           \* manifests written: split name -> text
    faults,        \* number of I/O failures that have happened
    shuffled,      \* the pool as it was right after random.shuffle
    dir_i,         \* number of input roots main has searched
    first          \* outcome of the previous run of the same command

vars == <<pc, args, tree, rng, split_ratios, img_triplets, dataset, split_i,
          pair_i, path_pairs, out, lst, faults, shuffled, dir_i, first>>

----------------------------------------------------------------------------
(* Bounds *)

RatioBits == 2
MaxPool == 5
MaxRoots == 2
MaxFaults == 1

RatioDen == 2 ^ RatioBits

----------------------------------------------------------------------------
(* Program constants *)

LABEL_NAME == <<"defect">>

SPLITS == <<"train", "val", "test">>

\* args.limit is <<>> for None (the default) and <<n>> for the integer n.
NoLimit == <<>>

----------------------------------------------------------------------------
(* Python primitives *)

Min(a, b) == IF a < b THEN a ELSE b
Max(a, b) == IF a > b THEN a ELSE b

\* int(x) of the float n / d: truncation toward zero.
IntTrunc(n, d) == IF n >= 0 THEN n \div d ELSE -((-n) \div d)

\* A slice bound as Python normalises it for a list of length n.
SliceIndex(i, n) == IF i < 0 THEN Max(i + n, 0) ELSE Min(i, n)

\* seq[start:stop] with 0-based, possibly negative or out-of-range bounds.
Slice(seq, start, stop) ==
    LET lo == SliceIndex(start, Len(seq))
        hi == SliceIndex(stop, Len(seq))
    IN  IF lo < hi THEN SubSeq(seq, lo + 1, hi) ELSE <<>>

\* seq[start:]
SliceFrom(seq, start) ==
    LET lo == SliceIndex(start, Len(seq))
    IN  SubSeq(seq, lo + 1, Len(seq))

\* Code points of the single-character tokens; a word token sorts by its
\* first character.
Ord(c) ==
    CASE c = "\t" -> 9
      [] c = "\n" -> 10
      [] c = "." -> 46
      [] c = "/" -> 47
      [] c = "_" -> 95
      [] c = "a" -> 97
      [] c = "b" -> 98
      [] c = "c" -> 99
      [] c = "jpg" -> 106
      [] c = "png" -> 112
      [] c = "x" -> 120
      [] c = "y" -> 121
      [] OTHER -> 127

RECURSIVE StrLess(_, _)
\* s < t for Python strings.
StrLess(s, t) ==
    IF t = <<>> THEN FALSE
    ELSE IF s = <<>> THEN TRUE
    ELSE IF Ord(Head(s)) # Ord(Head(t)) THEN Ord(Head(s)) < Ord(Head(t))
    ELSE StrLess(Tail(s), Tail(t))

RECURSIVE Sorted(_)
\* sorted(list(S)) for a set S of strings.
Sorted(S) ==
    IF S = {} THEN <<>>
    ELSE LET m == CHOOSE a \in S : \A b \in S \ {a} : StrLess(a, b)
         IN  <<m>> \o Sorted(S \ {m})

\* Position of the last occurrence of token c in s, 0 if there is none.
LastIndexOf(s, c) ==
    LET I == {i \in 1..Len(s) : s[i] = c}
    IN  IF I = {} THEN 0 ELSE CHOOSE i \in I : \A j \in I : j <= i

\* os.path.join(a, b)
PathJoin(a, b) ==
    IF b # <<>> /\ Head(b) = "/" THEN b
    ELSE IF a = <<>> \/ a[Len(a)] = "/" THEN a \o b
    ELSE a \o <<"/">> \o b

\* os.path.split(p)[-1], os.path.basename(p)
Basename(p) == SubSeq(p, LastIndexOf(p, "/") + 1, Len(p))

\* os.path.splitext(name)[0]: the name up to its last dot, the whole name
\* when the only dots are leading ones.
SplitextRoot(name) ==
    LET d == LastIndexOf(name, ".")
    IN  IF d = 0 \/ \A i \in 1..d : name[i] = "." THEN name
        ELSE SubSeq(name, 1, d - 1)

\* Permutations of a finite set, as sequences.
Orderings(S) ==
    {f \in [1..Cardinality(S) -> S] : \A i, j \in 1..Cardinality(S) :
        f[i] = f[j] => i = j}

Range(f) == {f[i] : i \in DOMAIN f}

----------------------------------------------------------------------------
(* Pair discovery *)

\* Entries of a directory; a directory that does not exist has none to
\* match.
Listdir(fs, dir) == IF dir \in DOMAIN fs THEN fs[dir] ELSE {}

\* fnmatch of "*.png" as glob applies it: names ending in ".png" that do
\* not start with a dot.
MatchesPng(n) ==
    /\ Len(n) >= 3
    /\ n[Len(n) - 1] = "." /\ n[Len(n)] = "png"
    /\ n[1] # "."

\* The set of names search_images can return for a directory; glob gives
\* them in an order of the file system's choosing.
search_images(fs, imgs_dir) == {n \in Listdir(fs, imgs_dir) : MatchesPng(n)}

\* search_image_triplets without the sort of line 98: the names in the
\* order the clean directory was listed.
search_image_triplets_unsorted(imgs_root, img_clean_names, img_noisy_names) ==
    LET keep == SelectSeq(img_clean_names,
                          LAMBDA n : n \in Range(img_noisy_names))
    IN  [i \in 1..Len(keep) |->
            [collection_id |-> Basename(imgs_root),
             clean_dir |-> PathJoin(imgs_root, <<"clean">>),
             noisy_dir |-> PathJoin(imgs_root, <<"noisy">>),
             img_name |-> keep[i]]]

\* search_image_triplets joining the listings with | instead of &.
search_image_triplets_union(imgs_root, img_clean_names, img_noisy_names) ==
    LET img_names == Sorted(Range(img_clean_names) \cup Range(img_noisy_names))
    IN  [i \in 1..Len(img_names) |->
            [collection_id |-> Basename(imgs_root),
             clean_dir |-> PathJoin(imgs_root, <<"clean">>),
             noisy_dir |-> PathJoin(imgs_root, <<"noisy">>),
             img_name |-> img_names[i]]]

\* search_image_triplets with the two listings as glob returned them.
search_image_triplets(imgs_root, img_clean_names, img_noisy_names) ==
    LET collection_id == Basename(imgs_root)
        clean_dir == PathJoin(imgs_root, <<"clean">>)
        noisy_dir == PathJoin(imgs_root, <<"noisy">>)
        img_names == Sorted(Range(img_clean_names) \cap Range(img_noisy_names))
    IN  [i \in 1..Len(img_names) |->
            [collection_id |-> collection_id, clean_dir |-> clean_dir,
             noisy_dir |-> noisy_dir, img_name |-> img_names[i]]]

----------------------------------------------------------------------------
(* Partition *)

\* split_len rounded up instead of truncated.
SplitLen_ceil(n, ratio) ==
    IF n * ratio >= 0 THEN (n * ratio + RatioDen - 1) \div RatioDen
    ELSE IntTrunc(n * ratio, RatioDen)

\* split_len of one split: int(triplets_len * split_ratio)
SplitLen(n, ratio) == IntTrunc(n * ratio, RatioDen)

RECURSIVE StartIdx(_, _, _)
RECURSIVE StartIdx_early(_, _, _)

\* start_idx advanced by the split's own length before its slice is taken.
StartIdx_early(n, ratios, k) ==
    IF k = 1 THEN IntTrunc(n * ratios[1], RatioDen)
    ELSE StartIdx_early(n, ratios, k - 1) + IntTrunc(n * ratios[k], RatioDen)

\* start_idx when the loop reaches split number k (1-based).
StartIdx(n, ratios, k) ==
    IF k = 1 THEN 0
    ELSE StartIdx(n, ratios, k - 1) + SplitLen(n, ratios[k - 1])

\* The last split sliced by its own length like the others.
SplitTriplets_no_remainder(triplets, splits, ratios, k) ==
    LET n == Len(triplets)
        start_idx == StartIdx(n, ratios, k)
    IN  Slice(triplets, start_idx, start_idx + IntTrunc(n * ratios[k], RatioDen))

\* The triplets split number k receives.
SplitTriplets(triplets, splits, ratios, k) ==
    LET n == Len(triplets)
        start_idx == StartIdx(n, ratios, k)
    IN  IF k = Len(splits) THEN SliceFrom(triplets, start_idx)
        ELSE Slice(triplets, start_idx, start_idx + SplitLen(n, ratios[k]))

split_dataset(triplets, splits, ratios) ==
    [s \in Range(splits) |->
        LET k == CHOOSE i \in 1..Len(splits) : splits[i] = s
        IN  SplitTriplets(triplets, splits, ratios, k)]

----------------------------------------------------------------------------
(* Shuffle *)

\* The generator behind random.seed / random.shuffle, stood in for by a
\* small linear congruential generator: what the program relies on is that
\* the numbers drawn are a function of the seed alone.
RandSeed(seed) == (IF seed < 0 THEN -seed ELSE seed) % 31
RandNext(s) == (7 * s + 3) % 31

RECURSIVE ShuffleFrom(_, _, _)
\* random.shuffle's loop from 0-based index i down to 1:
\*   j = randbelow(i + 1); x[i], x[j] = x[j], x[i]
ShuffleFrom(x, i, s) ==
    IF i < 1 THEN [list |-> x, rng |-> s]
    ELSE LET s2 == RandNext(s)
             j == s2 % (i + 1)
             y == [x EXCEPT ![i + 1] = x[j + 1], ![j + 1] = x[i + 1]]
         IN  ShuffleFrom(y, i - 1, s2)

Shuffle(x, s) == ShuffleFrom(x, Len(x) - 1, s)

----------------------------------------------------------------------------
(* Artifact paths, gen_defects lines 133-148 and gen_dataset lines 197-206 *)

OutputImgsDir(split) ==
    PathJoin(PathJoin(<<"leftImg8bit">>, LABEL_NAME), <<split>>)

OutputLabelsDir(split) ==
    PathJoin(PathJoin(<<"gtFine">>, LABEL_NAME), <<split>>)

ImgId(t) == t.collection_id \o <<"_">> \o SplitextRoot(t.img_name)

RawImgPath(t, split) ==
    PathJoin(OutputImgsDir(split), ImgId(t) \o <<"_">> \o <<"leftImg8bit", ".", "png">>)

LabelDictPath(t, split) ==
    PathJoin(OutputLabelsDir(split), ImgId(t) \o <<"_">> \o <<"polygons", ".", "json">>)

LabelImgPath(t, split) ==
    PathJoin(OutputLabelsDir(split), ImgId(t) \o <<"_">> \o <<"labelIds", ".", "png">>)

ImgCleanPath(t) == PathJoin(t.clean_dir, t.img_name)
ImgNoisyPath(t) == PathJoin(t.noisy_dir, t.img_name)

\* gen_lst's text: "\n".join("{}\t{}".format(r, l) for r, l in path_pairs)
RECURSIVE LstText(_)
LstText(pairs) ==
    IF pairs = <<>> THEN <<>>
    ELSE LET line == Head(pairs)[1] \o <<"\t">> \o Head(pairs)[2]
         IN  IF Len(pairs) = 1 THEN line
             ELSE line \o <<"\n">> \o LstText(Tail(pairs))

----------------------------------------------------------------------------
(* defects_segmentation.io *)

\* save_json(path, data): the document is written at the path.
save_json(files, path, data) == (path :> data) @@ files

\* save_text(path, text): the text is written at the path as it is.
save_text(files, path, text) == (path :> text) @@ files

----------------------------------------------------------------------------
(* Inputs *)

RootXA == <<"x", "/", "a">>
RootYA == <<"y", "/", "a">>
RootAB == <<"a", "_", "b">>
Roots == {RootXA, RootYA, RootAB}

NameA == <<"a", ".", "png">>
NameC == <<"c", ".", "png">>
NameBC == <<"b", "_", "c", ".", "png">>
NameTab == <<"c", "\t", "b", ".", "png">>
NameJpg == <<"c", ".", "jpg">>

CleanOf(root) == PathJoin(root, <<"clean">>)
NoisyOf(root) == PathJoin(root, <<"noisy">>)

\* The input tree of the runs of main.
MainTree ==
    (CleanOf(RootXA) :> {NameC, NameBC, NameJpg}) @@
    (NoisyOf(RootXA) :> {NameC, NameBC, NameJpg}) @@
    (CleanOf(RootYA) :> {NameC, NameA}) @@
    (NoisyOf(RootYA) :> {NameC}) @@
    (CleanOf(RootAB) :> {NameC, NameTab}) @@
    (NoisyOf(RootAB) :> {NameC, NameTab})

RootLists == UNION {[1..k -> Roots] : k \in 1..MaxRoots}

\* A quarter, in units of 1/RatioDen.
Quarter == RatioDen \div 4

ValArgs == {-Quarter, Quarter, 2 * Quarter, 5 * Quarter}
TestArgs == {Quarter, 3 * Quarter}
LimitArgs == {NoLimit, <<-2>>, <<0>>, <<2>>}
SeedArgs == {0, 1}

Args ==
    [imgs_dirs : RootLists, val : ValArgs, test : TestArgs,
     limit : LimitArgs, seed : SeedArgs]

NoRun == [ran |-> FALSE, dataset |-> <<>>, lst |-> <<>>]

InitWith(a, fs) ==
    /\ pc = "main"
    /\ args = a
    /\ tree = fs
    /\ rng = 0
    /\ split_ratios = <<>>
    /\ img_triplets = <<>>
    /\ dataset = <<>>
    /\ split_i = 1
    /\ pair_i = 0
    /\ path_pairs = <<>>
    /\ out = <<>>
    /\ lst = <<>>
    /\ faults = 0
    /\ shuffled = <<>>
    /\ dir_i = 0
    /\ first = NoRun

Init == \E a \in Args : InitWith(a, MainTree)

----------------------------------------------------------------------------
(* main *)

\* Lines 219-225: seed the generator, derive the ratios.  Nothing examines
\* args.val or args.test.
Begin ==
    /\ pc = "main"
    /\ rng' = RandSeed(args.seed)
    /\ split_ratios' = <<RatioDen - args.val - args.test, args.val, args.test>>
    /\ pc' = "search"
    /\ UNCHANGED <<args, tree, img_triplets, dataset, split_i, pair_i,
                   path_pairs, out, lst, faults, shuffled, dir_i, first>>

\* Lines 228-229, one iteration: search one root and extend the pool.
SearchRoot ==
    /\ pc = "search"
    /\ dir_i < Len(args.imgs_dirs)
    /\ LET imgs_root == args.imgs_dirs[dir_i + 1]
       IN  \E c \in Orderings(search_images(tree, CleanOf(imgs_root))),
              n \in Orderings(search_images(tree, NoisyOf(imgs_root))) :
               img_triplets' =
                   img_triplets \o search_image_triplets(imgs_root, c, n)
    /\ dir_i' = dir_i + 1
    /\ UNCHANGED <<pc, args, tree, rng, split_ratios, dataset, split_i, pair_i,
                   path_pairs, out, lst, faults, shuffled, first>>

\* Line 231: random.shuffle(img_triplets)
DoShuffle ==
    /\ pc = "search"
    /\ dir_i = Len(args.imgs_dirs)
    /\ LET r == Shuffle(img_triplets, rng)
       IN  /\ img_triplets' = r.list
           /\ shuffled' = r.list
           /\ rng' = r.rng
    /\ pc' = "limit"
    /\ UNCHANGED <<args, tree, split_ratios, dataset, split_i, pair_i,
                   path_pairs, out, lst, faults, dir_i, first>>

\* The limit applied as img_triplets[:limit + 1].
Truncated_off_by_one(triplets, limit) ==
    IF limit = NoLimit THEN triplets ELSE Slice(triplets, 0, limit[1] + 1)

\* Lines 233-234: img_triplets[:args.limit]
Truncated(triplets, limit) ==
    IF limit = NoLimit THEN triplets ELSE Slice(triplets, 0, limit[1])

DoLimit ==
    /\ pc = "limit"
    /\ img_triplets' = Truncated(img_triplets, args.limit)
    /\ pc' = "split"
    /\ UNCHANGED <<args, tree, rng, split_ratios, dataset, split_i, pair_i,
                   path_pairs, out, lst, faults, shuffled, dir_i, first>>

\* Line 236, and entry into gen_dataset's loop and gen_defects (line 131).
DoSplit ==
    /\ pc = "split"
    /\ dataset' = split_dataset(img_triplets, SPLITS, split_ratios)
    /\ split_i' = 1
    /\ pair_i' = 0
    /\ path_pairs' = <<>>
    /\ pc' = "pair"
    /\ UNCHANGED <<args, tree, rng, split_ratios, img_triplets, out, lst,
                   faults, shuffled, dir_i, first>>

----------------------------------------------------------------------------
(* gen_dataset / gen_defects / gen_lst *)

CurSplit == SPLITS[split_i]
CurTriplet == dataset[CurSplit][pair_i + 1]

\* Lines 150-153: both images decode and find_defects returns.
ReadPair ==
    /\ pc = "pair"
    /\ pair_i < Len(dataset[CurSplit])
    /\ pc' = "copy"
    /\ UNCHANGED <<args, tree, rng, split_ratios, img_triplets, dataset,
                   split_i, pair_i, path_pairs, out, lst, faults, shuffled,
                   dir_i, first>>

\* Line 156: copyfile(img_noisy_path, raw_img_path)
CopyRaw ==
    /\ pc = "copy"
    /\ out' = (RawImgPath(CurTriplet, CurSplit) :>
                  [kind |-> "raw", noisy |-> ImgNoisyPath(CurTriplet)]) @@ out
    /\ pc' = "json"
    /\ UNCHANGED <<args, tree, rng, split_ratios, img_triplets, dataset,
                   split_i, pair_i, path_pairs, lst, faults, shuffled, dir_i,
                   first>>

\* Lines 159-167: save_json(label_dict_path, label_dict)
SaveJson ==
    /\ pc = "json"
    /\ out' = save_json(out, LabelDictPath(CurTriplet, CurSplit),
                  [kind |-> "polygons", clean |-> ImgCleanPath(CurTriplet),
                   noisy |-> ImgNoisyPath(CurTriplet)])
    /\ pc' = "mask"
    /\ UNCHANGED <<args, tree, rng, split_ratios, img_triplets, dataset,
                   split_i, pair_i, path_pairs, lst, faults, shuffled, dir_i,
                   first>>

\* Line 179 and the loop's next iteration.
AppendPathPair ==
    /\ path_pairs' = Append(path_pairs,
           <<RawImgPath(CurTriplet, CurSplit), LabelImgPath(CurTriplet, CurSplit)>>)
    /\ pair_i' = pair_i + 1
    /\ pc' = "pair"

\* Lines 170-179: cv2.imwrite writes the mask.
WriteMask ==
    /\ pc = "mask"
    /\ out' = (LabelImgPath(CurTriplet, CurSplit) :>
                  [kind |-> "labelIds", clean |-> ImgCleanPath(CurTriplet),
                   noisy |-> ImgNoisyPath(CurTriplet)]) @@ out
    /\ AppendPathPair
    /\ UNCHANGED <<args, tree, rng, split_ratios, img_triplets, dataset,
                   split_i, lst, faults, shuffled, dir_i, first>>

\* Lines 184-190 for the split whose pairs are all processed, then the next
\* split of gen_dataset's loop, or line 239 after the last one.
GenLst ==
    /\ pc = "pair"
    /\ pair_i = Len(dataset[CurSplit])
    /\ lst' = save_text(lst, CurSplit, LstText(path_pairs))
    /\ IF split_i < Len(SPLITS)
       THEN /\ split_i' = split_i + 1
            /\ pc' = "pair"
       ELSE /\ split_i' = split_i
            /\ pc' = "done"
    /\ pair_i' = 0
    /\ path_pairs' = <<>>
    /\ UNCHANGED <<args, tree, rng, split_ratios, img_triplets, dataset, out,
                   faults, shuffled, dir_i, first>>

----------------------------------------------------------------------------
(* I/O failures *)

Abort ==
    /\ faults < MaxFaults
    /\ faults' = faults + 1
    /\ pc' = "aborted"
    /\ UNCHANGED <<args, tree, rng, split_ratios, img_triplets, dataset,
                   split_i, pair_i, path_pairs, out, lst, shuffled, dir_i,
                   first>>

\* cv2.imread returns None for an unreadable image and the lines that use
\* the image raise (153, 160): the run ends before the polygon document.
ReadFails == pc = "pair" /\ pair_i < Len(dataset[CurSplit]) /\ Abort

\* copyfile raises.
CopyFails == pc = "copy" /\ Abort

\* save_json raises.
JsonFails == pc = "json" /\ Abort

\* save_text raises.
LstFails == pc = "pair" /\ pair_i = Len(dataset[CurSplit]) /\ Abort

\* cv2.imwrite reports a failed write by returning False; line 177 drops
\* the returned value and line 179 goes on.
WriteMaskFails ==
    /\ pc = "mask"
    /\ faults < MaxFaults
    /\ faults' = faults + 1
    /\ AppendPathPair
    /\ UNCHANGED <<args, tree, rng, split_ratios, img_triplets, dataset,
                   split_i, out, lst, shuffled, dir_i, first>>

----------------------------------------------------------------------------
(* The command run again on the same inputs, into a fresh output directory *)

Rerun ==
    /\ pc = "done"
    /\ ~first.ran
    /\ first' = [ran |-> TRUE, dataset |-> dataset, lst |-> lst]
    /\ pc' = "main"
    /\ rng' = 0
    /\ split_ratios' = <<>>
    /\ img_triplets' = <<>>
    /\ dataset' = <<>>
    /\ split_i' = 1
    /\ pair_i' = 0
    /\ path_pairs' = <<>>
    /\ out' = <<>>
    /\ lst' = <<>>
    /\ shuffled' = <<>>
    /\ dir_i' = 0
    /\ UNCHANGED <<args, tree, faults>>

----------------------------------------------------------------------------
(* Specifications *)

Steps ==
    \/ Begin
    \/ SearchRoot
    \/ DoShuffle
    \/ DoLimit
    \/ DoSplit
    \/ ReadPair
    \/ CopyRaw
    \/ SaveJson
    \/ WriteMask
    \/ GenLst

Next ==
    \/ Steps
    \/ ReadFails
    \/ CopyFails
    \/ JsonFails
    \/ WriteMaskFails
    \/ LstFails
    \/ Rerun

\* A run of main, and the same command once more.
Spec == Init /\ [][Next]_vars

----------------------------------------------------------------------------
(* split_dataset on its own: a pool of distinct triplets and any ratios *)

RatioGrid == (-2)..(RatioDen + 2)

PoolName(i) == <<"c">> \o [j \in 1..i |-> "_"] \o <<".", "png">>

Pool(n) ==
    [i \in 1..n |->
        [collection_id |-> Basename(RootXA), clean_dir |-> CleanOf(RootXA),
         noisy_dir |-> NoisyOf(RootXA), img_name |-> PoolName(i)]]

DefaultArgs(dirs) ==
    [imgs_dirs |-> dirs, val |-> Quarter, test |-> Quarter,
     limit |-> NoLimit, seed |-> 0]

InitSplit ==
    \E n \in 0..MaxPool, r \in RatioGrid \X RatioGrid \X RatioGrid :
        /\ pc = "split"
        /\ args = DefaultArgs(<<RootXA>>)
        /\ tree = <<>>
        /\ rng = 0
        /\ split_ratios = r
        /\ img_triplets = Pool(n)
        /\ dataset = <<>>
        /\ split_i = 1
        /\ pair_i = 0
        /\ path_pairs = <<>>
        /\ out = <<>>
        /\ lst = <<>>
        /\ faults = 0
        /\ shuffled = Pool(n)
        /\ dir_i = 1
        /\ first = NoRun

NextSplit == DoSplit

SpecSplit == InitSplit /\ [][NextSplit]_vars

----------------------------------------------------------------------------
(* search_image_triplets on its own: one root, any directory contents *)

RootSlash == <<"x", "/">>
SearchRoots == Roots \cup {RootSlash}
SearchNames == {NameA, NameC, NameBC, NameTab, NameJpg}

\* A directory that is missing, or present with any of the names in it.
DirStates(dir) == {<<>>} \cup {dir :> S : S \in SUBSET SearchNames}

InitSearch ==
    \E root \in SearchRoots :
        \E c \in DirStates(CleanOf(root)), n \in DirStates(NoisyOf(root)) :
            InitWith(DefaultArgs(<<root>>), c @@ n)

NextSearch == Begin \/ SearchRoot

SpecSearch == InitSearch /\ [][NextSearch]_vars

----------------------------------------------------------------------------
(* Helpers of the properties *)

\* Non-negative ratios that sum to one.
ValidRatios(r) ==
    /\ \A k \in 1..3 : r[k] >= 0
    /\ r[1] + r[2] + r[3] = RatioDen

\* The number of places of the splits that hold triplet t.
Occurrences(t) ==
    Cardinality({<<s, j>> \in Range(SPLITS) \X (1..Len(img_triplets)) :
        j <= Len(dataset[s]) /\ dataset[s][j] = t})

TotalAssigned ==
    Len(dataset["train"]) + Len(dataset["val"]) + Len(dataset["test"])

Floor(n, ratio) == (n * ratio) \div RatioDen

----------------------------------------------------------------------------
(* Properties of split_dataset, under SpecSplit *)

\* C1: for a valid ratio tuple every pool element is in exactly one place of
\* exactly one split, and the splits together hold exactly N elements.
C1_ExactlyOneSplit ==
    (pc = "pair" /\ ValidRatios(split_ratios)) =>
        /\ TotalAssigned = Len(img_triplets)
        /\ \A i \in 1..Len(img_triplets) : Occurrences(img_triplets[i]) = 1

C1_Witness ==
    /\ pc = "pair" /\ ValidRatios(split_ratios)
    /\ Len(img_triplets) = MaxPool
    /\ \A s \in Range(SPLITS) : dataset[s] # <<>>
    /\ (Len(img_triplets) * split_ratios[1]) % RatioDen # 0

\* C3: for non-negative ratios whose first two do not exceed one, train is
\* the first floor(N*r1) elements, val the next floor(N*r2), and test has
\* N - floor(N*r1) - floor(N*r2) elements whatever its own ratio is.
C3_FloorAndRemainder ==
    (pc = "pair" /\ split_ratios[1] >= 0 /\ split_ratios[2] >= 0
        /\ split_ratios[1] + split_ratios[2] <= RatioDen) =>
        LET n == Len(img_triplets)
            f1 == Floor(n, split_ratios[1])
            f2 == Floor(n, split_ratios[2])
        IN  /\ dataset["train"] = SubSeq(img_triplets, 1, f1)
            /\ dataset["val"] = SubSeq(img_triplets, f1 + 1, f1 + f2)
            /\ Len(dataset["test"]) = n - f1 - f2

C3_Witness ==
    /\ pc = "pair" /\ split_ratios[1] > 0 /\ split_ratios[2] > 0
    /\ split_ratios[1] + split_ratios[2] < RatioDen
    /\ (Len(img_triplets) * split_ratios[1]) % RatioDen # 0
    /\ (Len(img_triplets) * split_ratios[2]) % RatioDen # 0
    /\ Len(dataset["train"]) > 0 /\ Len(dataset["val"]) > 0
    /\ Len(dataset["test"]) > Floor(Len(img_triplets), split_ratios[3]) + 1
    /\ split_ratios[3] < 0

\* C8: for non-negative ratios, a larger validation ratio with the other two
\* ratios unchanged never gives a smaller val split.
C8_ValMonotone ==
    (pc = "pair" /\ split_ratios[1] >= 0 /\ split_ratios[2] >= 0) =>
        \A v \in RatioGrid :
            v > split_ratios[2] =>
                Len(split_dataset(img_triplets, SPLITS,
                        <<split_ratios[1], v, split_ratios[3]>>)["val"])
                    >= Len(dataset["val"])

C8_Witness ==
    /\ pc = "pair" /\ split_ratios[1] > 0 /\ split_ratios[2] > 0
    /\ Len(dataset["val"]) > 0
    /\ \E v \in RatioGrid :
        /\ v > split_ratios[2]
        /\ Len(split_dataset(img_triplets, SPLITS,
                <<split_ratios[1], v, split_ratios[3]>>)["val"])
            > Len(dataset["val"])
    /\ \E v \in RatioGrid :
        /\ v > split_ratios[2]
        /\ Len(split_dataset(img_triplets, SPLITS,
                <<split_ratios[1], v, split_ratios[3]>>)["val"])
            = Len(dataset["val"])

----------------------------------------------------------------------------
(* Properties of search_image_triplets, under SpecSearch *)

SearchedRoot == args.imgs_dirs[1]
InClean == Listdir(tree, CleanOf(SearchedRoot))
InNoisy == Listdir(tree, NoisyOf(SearchedRoot))
PngInBoth == {n \in InClean \cap InNoisy : n[Len(n)] = "png"}

\* C7: after one root is searched the pool holds one triplet per image name
\* present in both subdirectories and none other, in increasing name order,
\* each tagged with what follows the root's last "/"; a missing
\* subdirectory gives no triplet and the run goes on.
C7_JoinByName ==
    (pc = "search" /\ dir_i = 1) =>
        /\ {img_triplets[i].img_name : i \in 1..Len(img_triplets)} = PngInBoth
        /\ Len(img_triplets) = Cardinality(PngInBoth)
        /\ \A i, j \in 1..Len(img_triplets) :
            i < j => StrLess(img_triplets[i].img_name, img_triplets[j].img_name)
        /\ \A i \in 1..Len(img_triplets) :
            LET id == img_triplets[i].collection_id
                k == Len(SearchedRoot) - Len(id)
            IN  /\ \A m \in 1..Len(id) : id[m] # "/"
                /\ SubSeq(SearchedRoot, k + 1, Len(SearchedRoot)) = id
                /\ k > 0 => SearchedRoot[k] = "/"
        /\ (CleanOf(SearchedRoot) \notin DOMAIN tree
                \/ NoisyOf(SearchedRoot) \notin DOMAIN tree) =>
            img_triplets = <<>>

C7_Witness ==
    /\ pc = "search" /\ dir_i = 1
    /\ Len(img_triplets) >= 2
    /\ \E n \in InClean \ InNoisy : n[Len(n)] = "png"
    /\ \E n \in InNoisy \ InClean : n[Len(n)] = "png"
    /\ NameJpg \in InClean \cap InNoisy

----------------------------------------------------------------------------
(* Properties of main, under Spec *)

\* --val or --test negative or above one, or --val + --test at least one.
InvalidRatioArgs ==
    \/ args.val < 0 \/ args.test < 0
    \/ args.val > RatioDen \/ args.test > RatioDen
    \/ args.val + args.test >= RatioDen

\* C2: with invalid ratio arguments main discovers nothing, shuffles and
\* partitions nothing and writes no artifact and no manifest.
C2_RejectedBeforeProcessing ==
    InvalidRatioArgs =>
        /\ dir_i = 0
        /\ pc \in {"main", "search"}
        /\ dataset = <<>>
        /\ out = <<>>
        /\ lst = <<>>

LimitGiven == args.limit # NoLimit
Limited == pc \in {"split", "pair", "copy", "json", "mask", "done", "aborted"}

\* C4 as stated, already for valid ratio arguments: a limit L < N, whatever
\* its sign, leaves exactly L pairs, the first L of the shuffled pool.
C4_ExactlyLimit ==
    (~InvalidRatioArgs /\ Limited /\ LimitGiven
        /\ args.limit[1] < Len(shuffled)) =>
        /\ Len(img_triplets) = args.limit[1]
        /\ img_triplets = SubSeq(shuffled, 1, args.limit[1])

\* C4 amended: a limit 0 <= L < N leaves exactly the first L pairs of the
\* shuffled pool, a limit L < 0 the first max(N + L, 0); with valid ratios a
\* completed run has processed exactly that many pairs over its splits.
C4_LimitKeepsPrefix ==
    (Limited /\ LimitGiven /\ args.limit[1] < Len(shuffled)) =>
        LET l == args.limit[1]
            kept == IF l >= 0 THEN l ELSE Max(Len(shuffled) + l, 0)
        IN  /\ Len(img_triplets) = kept
            /\ \A i \in 1..kept : img_triplets[i] = shuffled[i]
            /\ (pc = "done" /\ ValidRatios(split_ratios)) => TotalAssigned = kept

C4_Witness ==
    /\ pc = "done" /\ LimitGiven /\ ValidRatios(split_ratios)
    /\ args.limit[1] = 2 /\ Len(shuffled) = 4
    /\ TotalAssigned = 2
    /\ Cardinality(DOMAIN out) = 6

\* C5: the second run of the command ends with the split assignment and the
\* manifests of the first.
C5_SameOutcome ==
    (pc = "done" /\ first.ran) =>
        /\ dataset = first.dataset
        /\ lst = first.lst

C5_Witness ==
    /\ pc = "done" /\ first.ran
    /\ Len(img_triplets) >= 3
    /\ \E i \in 1..Len(shuffled) : shuffled[i].img_name # NameC
    /\ \E i, j \in 1..Len(shuffled) :
        i < j /\ shuffled[i].clean_dir = shuffled[j].clean_dir
              /\ StrLess(shuffled[j].img_name, shuffled[i].img_name)
    /\ lst["train"] # <<>>

\* The (raw, label) pairs gen_defects records for the triplets of a split.
RecordedPairs(split) ==
    [i \in 1..Len(dataset[split]) |->
        <<RawImgPath(dataset[split][i], split),
          LabelImgPath(dataset[split][i], split)>>]

RECURSIVE SplitOn(_, _)
\* text.split(sep) for a one-token separator.
SplitOn(text, sep) ==
    LET I == {i \in 1..Len(text) : text[i] = sep}
    IN  IF I = {} THEN <<text>>
        ELSE LET i == CHOOSE k \in I : \A m \in I : k <= m
             IN  <<SubSeq(text, 1, i - 1)>>
                 \o SplitOn(SubSeq(text, i + 1, Len(text)), sep)

\* The lines of a manifest, each split at its tabs; an empty file has no
\* line.
ParsedLst(text) ==
    IF text = <<>> THEN <<>>
    ELSE LET lines == SplitOn(text, "\n")
         IN  [i \in 1..Len(lines) |-> SplitOn(lines[i], "\t")]

\* C6, already for valid ratio arguments: a written manifest has one line
\* per pair of its split, in processing order, and each line split at the
\* tab is the recorded pair.
C6_LstRoundTrip ==
    ~InvalidRatioArgs =>
        \A s \in DOMAIN lst : ParsedLst(lst[s]) = RecordedPairs(s)

\* C9, already for valid ratio arguments: the pairs of a split whose
\* manifest is written have all three artifacts written; manifests appear
\* in the order train, val, test; a pair's polygon document is never there
\* without its raw copy, nor its mask without its polygon document.
C9_ListedPairsWritten ==
    ~InvalidRatioArgs =>
    /\ \A s \in DOMAIN lst : \A i \in 1..Len(dataset[s]) :
        /\ RawImgPath(dataset[s][i], s) \in DOMAIN out
        /\ LabelDictPath(dataset[s][i], s) \in DOMAIN out
        /\ LabelImgPath(dataset[s][i], s) \in DOMAIN out
    /\ "test" \in DOMAIN lst => "val" \in DOMAIN lst
    /\ "val" \in DOMAIN lst => "train" \in DOMAIN lst
    /\ \A s \in DOMAIN dataset : \A i \in 1..Len(dataset[s]) :
        /\ LabelImgPath(dataset[s][i], s) \in DOMAIN out
            => LabelDictPath(dataset[s][i], s) \in DOMAIN out
        /\ LabelDictPath(dataset[s][i], s) \in DOMAIN out
            => RawImgPath(dataset[s][i], s) \in DOMAIN out

\* C10, already for valid ratio arguments: after a complete run two
\* different pool entries of one split have different raw-image, polygon and
\* label-mask paths.
C10_DistinctArtifacts ==
    (~InvalidRatioArgs /\ pc = "done") =>
        \A s \in DOMAIN dataset : \A i, j \in 1..Len(dataset[s]) :
            dataset[s][i] # dataset[s][j] =>
                /\ RawImgPath(dataset[s][i], s) # RawImgPath(dataset[s][j], s)
                /\ LabelDictPath(dataset[s][i], s) # LabelDictPath(dataset[s][j], s)
                /\ LabelImgPath(dataset[s][i], s) # LabelImgPath(dataset[s][j], s)

====
